---- MODULE Spec2Model ----
(***************************************************************************)
(* Mud16System (src/main.cpp): the cycle-stepped harness around the        *)
(* Verilated PPU core.  The core (Vppu) is a pin-level black box: each     *)
(* eval() leaves arbitrary values on the pins the harness only reads.      *)
(* Widths are scaled: a byte holds BYTE_MOD values (256 in the build), an  *)
(* address ADDR_MOD values (2^32 in the build), the RAM has RAM_SIZE bytes *)
(* (1 MiB in the build) and the frame is WIDTH x HEIGHT (320 x 240).       *)
(***************************************************************************)
EXTENDS Integers, Sequences, FiniteSets

VARIABLES
    \* ---- pins of the Vppu object
    clk, reset, cpu_bg_n, cpu_as_n, mem_rdata,          \* written by the harness
    cpu_bus_oe_n,                                       \* read by the harness, never written
    ppu_br_n, ppu_bgack_n, mem_read, mem_write,         \* read by the harness
    mem_addr, mem_wdata, pixel_r, pixel_g, pixel_b,
    \* ---- Mud16System fields
    ram, tick_count, cpu_grant_delay_counter,
    \* ---- main()
    i, p_idx, pixels, frames,
    \* ---- control: position in tick(), ticks reset() has still to call
    pc, rst_left,
    \* ---- observations (history, not program state)
    oob,        \* a vector index outside [0, RAM_SIZE) has been used
    br_run,     \* consecutive arbiter steps that sampled bus-request asserted
    idle_run,   \* consecutive arbiter steps that sampled request and acknowledge deasserted
    calls,      \* calls of tick() and reset() made by the user so far, counted up to 2
    returned,   \* the call that returned last: "none", "tick" or "reset"
    shadow,     \* address -> word of the last serviced in-bounds write still intact
    recent,     \* the last WIDTH*HEIGHT pixel samples captured, oldest first
    wraps,      \* times p_idx wrapped to 0 in the current frame
    bg_start,   \* cpu_bg_n as the tick in progress (or the last one) found it
    late_ack,   \* bus-grant-acknowledge was first asserted at a falling-edge eval()
    tc_call     \* tick_count when the user's last call of tick() or reset() began

pins    == <<clk, reset, cpu_bg_n, cpu_as_n, mem_rdata, cpu_bus_oe_n>>
outs    == <<ppu_br_n, ppu_bgack_n, mem_read, mem_write, mem_addr, mem_wdata,
             pixel_r, pixel_g, pixel_b>>
fields  == <<ram, tick_count, cpu_grant_delay_counter>>
mainv   == <<i, p_idx, pixels, frames>>
ctl     == <<pc, rst_left>>
obs     == <<oob, br_run, idle_run, calls, returned, shadow, recent, wraps>>
obs2    == <<bg_start, late_ack, tc_call>>
vars    == <<pins, outs, fields, mainv, ctl, obs, obs2>>

\* ------------------------------------------------------------------ sizes
WIDTH       == 2
HEIGHT      == 1
RAM_SIZE    == 6
BYTE_MOD    == 4
ADDR_MOD    == 16
GRANT_DELAY == 4
MaxTicks    == 18
MemTicks    == 2
MaxFrames   == 2

WORD_MOD    == BYTE_MOD * BYTE_MOD * BYTE_MOD * BYTE_MOD
Bytes       == 0 .. (BYTE_MOD - 1)
NoWord      == 0 - 1

\* ------------------------------------------------------------------ helpers
\* uint8_t conversion
U8(x) == x % BYTE_MOD

\* byte k of a 32-bit value: (data >> 8k) & 0xFF
ByteOf(data, k) ==
    CASE k = 0 -> data % BYTE_MOD
      [] k = 1 -> (data \div BYTE_MOD) % BYTE_MOD
      [] k = 2 -> (data \div (BYTE_MOD * BYTE_MOD)) % BYTE_MOD
      [] k = 3 -> (data \div (BYTE_MOD * BYTE_MOD * BYTE_MOD)) % BYTE_MOD

\* byte k placed in a word: b << 8k
ShiftL(b, k) ==
    CASE k = 0 -> b
      [] k = 1 -> b * BYTE_MOD
      [] k = 2 -> b * BYTE_MOD * BYTE_MOD
      [] k = 3 -> b * BYTE_MOD * BYTE_MOD * BYTE_MOD

\* init_ram_pattern: the byte the constructor leaves at index a
init_ram_pattern ==
    [a \in 0 .. (RAM_SIZE - 1) |->
        LET px   == a \div 4
            x    == px % WIDTH
            y    == px \div WIDTH
            addr == px * 4
        IN  IF y < HEIGHT /\ addr + 3 < RAM_SIZE
            THEN CASE a - addr = 0 -> U8(x)
                   [] a - addr = 1 -> U8(y)
                   [] a - addr = 2 -> U8(x + y)
                   [] a - addr = 3 -> BYTE_MOD - 1
            ELSE 0]

\* ------------------------------------------------------------------ memory
\* (mutant) the bus-driver-enable pin is not looked at
Mastership_no_oe == ppu_bgack_n = 0

\* line 113: the PPU is actually driving the bus
Mastership == ppu_bgack_n = 0 /\ cpu_bus_oe_n = 1

\* lines 117, 128: addr + 3 < RAM_SIZE, in uint32_t arithmetic
InBounds(addr) == (addr + 3) % ADDR_MOD < RAM_SIZE

\* the vector index used for byte k: addr + k in uint32_t arithmetic
Idx(addr, k) == (addr + k) % ADDR_MOD

\* the byte positions of an access whose index is outside the vector
OobBytes(addr) == {k \in 0 .. 3 : Idx(addr, k) >= RAM_SIZE}

\* lines 118-121: the word assembled from four bytes; g gives the byte an
\* out-of-range index happens to read
ReadWord(r, addr, g) ==
    LET b(k) == IF Idx(addr, k) < RAM_SIZE THEN r[Idx(addr, k)] ELSE g[k]
    IN  (ShiftL(b(0), 0) + ShiftL(b(1), 1) + ShiftL(b(2), 2) + ShiftL(b(3), 3)) % WORD_MOD

\* (mutant) the four bytes stored most significant first
WriteWord_big_endian(r, addr, data) ==
    [a \in DOMAIN r |->
        IF \E k \in 0 .. 3 : Idx(addr, k) = a
        THEN ByteOf(data, 3 - (CHOOSE k \in 0 .. 3 : Idx(addr, k) = a))
        ELSE r[a]]

\* lines 129-132: the four byte stores; a store outside the vector lands outside
\* the modelled state
WriteWord(r, addr, data) ==
    [a \in DOMAIN r |->
        IF \E k \in 0 .. 3 : Idx(addr, k) = a
        THEN ByteOf(data, CHOOSE k \in 0 .. 3 : Idx(addr, k) = a)
        ELSE r[a]]

\* the bytes of the vector a serviced write at addr stores to
Touched(addr) == {Idx(addr, k) : k \in 0 .. 3} \cap (0 .. (RAM_SIZE - 1))

\* observation: the words known to be intact after a serviced write at addr
ShadowAfterWrite(sh, addr, data) ==
    [a \in DOMAIN sh |->
        IF a = addr THEN data
        ELSE IF {a, a + 1, a + 2, a + 3} \cap Touched(addr) # {} THEN NoWord
        ELSE sh[a]]

\* lines 111-142
simulate_memory ==
    /\ pc = "mem"
    /\ LET rd_ok == Mastership /\ mem_read = 1 /\ InBounds(mem_addr)
           wr_ok == Mastership /\ mem_write = 1 /\ InBounds(mem_addr)
           fault == (rd_ok \/ wr_ok) /\ OobBytes(mem_addr) # {}
       IN  \E g \in [OobBytes(mem_addr) -> Bytes],
              crash \in (IF fault THEN BOOLEAN ELSE {FALSE}) :
             /\ mem_rdata' = IF ~Mastership THEN 0
                             ELSE IF rd_ok THEN ReadWord(ram, mem_addr, g)
                             ELSE mem_rdata
             /\ ram' = IF wr_ok THEN WriteWord(ram, mem_addr, mem_wdata) ELSE ram
             /\ oob' = (oob \/ fault)
             /\ shadow' = IF wr_ok THEN ShadowAfterWrite(shadow, mem_addr, mem_wdata)
                          ELSE shadow
             /\ pc' = IF crash THEN "crashed" ELSE "fall"
    /\ UNCHANGED <<clk, reset, cpu_bg_n, cpu_as_n, cpu_bus_oe_n, outs,
                   tick_count, cpu_grant_delay_counter, mainv, rst_left,
                   br_run, idle_run, calls, returned, recent, wraps, obs2>>

\* ------------------------------------------------------------------ arbiter
\* (mutant) one cycle less before the grant
GrantDue_early(counter) == ~(counter < GRANT_DELAY - 1)

\* (mutant) one cycle more before the grant
GrantDue_late(counter) == ~(counter < GRANT_DELAY + 1)

\* line 89: the host has had its cycles to release the bus
GrantDue(counter) == ~(counter < GRANT_DELAY)

\* (mutant) the strobe pulsed one tick later
AsPulse_shifted(tc) == IF tc % 4 = 1 THEN 0 ELSE 1

\* line 106: the default master's strobe
AsPulse(tc) == IF tc % 4 = 0 THEN 0 ELSE 1

\* (mutant) a dropped request withdraws the grant but keeps the counter
simulate_cpu_arbitration_keeps_counter ==
    /\ pc = "arb"
    /\ IF ppu_br_n = 0
       THEN IF ~GrantDue(cpu_grant_delay_counter)
            THEN /\ cpu_grant_delay_counter' = cpu_grant_delay_counter + 1
                 /\ UNCHANGED <<cpu_bg_n, cpu_as_n>>
            ELSE /\ cpu_bg_n' = 0
                 /\ cpu_as_n' = 1
                 /\ UNCHANGED cpu_grant_delay_counter
       ELSE /\ cpu_bg_n' = 1
            /\ UNCHANGED cpu_grant_delay_counter
            /\ cpu_as_n' = IF ppu_bgack_n = 1 THEN AsPulse(tick_count) ELSE cpu_as_n
    /\ br_run' = IF ppu_br_n = 0
                 THEN (IF br_run < GRANT_DELAY + 2 THEN br_run + 1 ELSE br_run)
                 ELSE 0
    /\ idle_run' = IF ppu_br_n = 1 /\ ppu_bgack_n = 1
                   THEN (IF idle_run < 16 THEN idle_run + 1 ELSE idle_run)
                   ELSE 0
    /\ pc' = "mem"
    /\ UNCHANGED <<clk, reset, mem_rdata, cpu_bus_oe_n, outs, ram, tick_count,
                   mainv, rst_left, oob, calls, returned, shadow, recent, wraps,
                   obs2>>

\* (mutant) the grant does not release the address strobe
simulate_cpu_arbitration_keeps_strobe ==
    /\ pc = "arb"
    /\ IF ppu_br_n = 0
       THEN IF ~GrantDue(cpu_grant_delay_counter)
            THEN /\ cpu_grant_delay_counter' = cpu_grant_delay_counter + 1
                 /\ UNCHANGED <<cpu_bg_n, cpu_as_n>>
            ELSE /\ cpu_bg_n' = 0
                 /\ UNCHANGED cpu_as_n
                 /\ UNCHANGED cpu_grant_delay_counter
       ELSE /\ cpu_bg_n' = 1
            /\ cpu_grant_delay_counter' = 0
            /\ cpu_as_n' = IF ppu_bgack_n = 1 THEN AsPulse(tick_count) ELSE cpu_as_n
    /\ br_run' = IF ppu_br_n = 0
                 THEN (IF br_run < GRANT_DELAY + 2 THEN br_run + 1 ELSE br_run)
                 ELSE 0
    /\ idle_run' = IF ppu_br_n = 1 /\ ppu_bgack_n = 1
                   THEN (IF idle_run < 16 THEN idle_run + 1 ELSE idle_run)
                   ELSE 0
    /\ pc' = "mem"
    /\ UNCHANGED <<clk, reset, mem_rdata, cpu_bus_oe_n, outs, ram, tick_count,
                   mainv, rst_left, oob, calls, returned, shadow, recent, wraps,
                   obs2>>

\* (mutant) the host keeps pulsing the strobe during the grant wait
simulate_cpu_arbitration_pulses_in_wait ==
    /\ pc = "arb"
    /\ IF ppu_br_n = 0
       THEN IF ~GrantDue(cpu_grant_delay_counter)
            THEN /\ cpu_grant_delay_counter' = cpu_grant_delay_counter + 1
                 /\ cpu_as_n' = AsPulse(tick_count)
                 /\ UNCHANGED cpu_bg_n
            ELSE /\ cpu_bg_n' = 0
                 /\ cpu_as_n' = 1
                 /\ UNCHANGED cpu_grant_delay_counter
       ELSE /\ cpu_bg_n' = 1
            /\ cpu_grant_delay_counter' = 0
            /\ cpu_as_n' = IF ppu_bgack_n = 1 THEN AsPulse(tick_count) ELSE cpu_as_n
    /\ br_run' = IF ppu_br_n = 0
                 THEN (IF br_run < GRANT_DELAY + 2 THEN br_run + 1 ELSE br_run)
                 ELSE 0
    /\ idle_run' = IF ppu_br_n = 1 /\ ppu_bgack_n = 1
                   THEN (IF idle_run < 16 THEN idle_run + 1 ELSE idle_run)
                   ELSE 0
    /\ pc' = "mem"
    /\ UNCHANGED <<clk, reset, mem_rdata, cpu_bus_oe_n, outs, ram, tick_count,
                   mainv, rst_left, oob, calls, returned, shadow, recent, wraps,
                   obs2>>

\* (mutant) the host pulses the strobe whether or not the acknowledge is asserted
simulate_cpu_arbitration_pulses_always ==
    /\ pc = "arb"
    /\ IF ppu_br_n = 0
       THEN IF ~GrantDue(cpu_grant_delay_counter)
            THEN /\ cpu_grant_delay_counter' = cpu_grant_delay_counter + 1
                 /\ UNCHANGED <<cpu_bg_n, cpu_as_n>>
            ELSE /\ cpu_bg_n' = 0
                 /\ cpu_as_n' = 1
                 /\ UNCHANGED cpu_grant_delay_counter
       ELSE /\ cpu_bg_n' = 1
            /\ cpu_grant_delay_counter' = 0
            /\ cpu_as_n' = AsPulse(tick_count)
    /\ br_run' = IF ppu_br_n = 0
                 THEN (IF br_run < GRANT_DELAY + 2 THEN br_run + 1 ELSE br_run)
                 ELSE 0
    /\ idle_run' = IF ppu_br_n = 1 /\ ppu_bgack_n = 1
                   THEN (IF idle_run < 16 THEN idle_run + 1 ELSE idle_run)
                   ELSE 0
    /\ pc' = "mem"
    /\ UNCHANGED <<clk, reset, mem_rdata, cpu_bus_oe_n, outs, ram, tick_count,
                   mainv, rst_left, oob, calls, returned, shadow, recent, wraps,
                   obs2>>

\* lines 83-109
simulate_cpu_arbitration ==
    /\ pc = "arb"
    /\ IF ppu_br_n = 0
       THEN IF ~GrantDue(cpu_grant_delay_counter)
            THEN /\ cpu_grant_delay_counter' = cpu_grant_delay_counter + 1
                 /\ UNCHANGED <<cpu_bg_n, cpu_as_n>>
            ELSE /\ cpu_bg_n' = 0
                 /\ cpu_as_n' = 1
                 /\ UNCHANGED cpu_grant_delay_counter
       ELSE /\ cpu_bg_n' = 1
            /\ cpu_grant_delay_counter' = 0
            /\ cpu_as_n' = IF ppu_bgack_n = 1 THEN AsPulse(tick_count) ELSE cpu_as_n
    /\ br_run' = IF ppu_br_n = 0
                 THEN (IF br_run < GRANT_DELAY + 2 THEN br_run + 1 ELSE br_run)
                 ELSE 0
    /\ idle_run' = IF ppu_br_n = 1 /\ ppu_bgack_n = 1
                   THEN (IF idle_run < 16 THEN idle_run + 1 ELSE idle_run)
                   ELSE 0
    /\ pc' = "mem"
    /\ UNCHANGED <<clk, reset, mem_rdata, cpu_bus_oe_n, outs, ram, tick_count,
                   mainv, rst_left, oob, calls, returned, shadow, recent, wraps,
                   obs2>>

\* ------------------------------------------------------------------ the core
\* Vppu::eval() as the harness sees it: any value on every pin it only reads.
\* cpu_bus_oe_n is among them: main.cpp reads it (line 113) and never assigns it.
eval(Outs) ==
    \E o \in Outs :
        /\ ppu_br_n' = o.br_n
        /\ ppu_bgack_n' = o.bgack_n
        /\ cpu_bus_oe_n' = o.oe_n
        /\ mem_read' = o.rd
        /\ mem_write' = o.wr
        /\ mem_addr' = o.addr
        /\ mem_wdata' = o.wdata
        /\ pixel_r' = o.pix[1]
        /\ pixel_g' = o.pix[2]
        /\ pixel_b' = o.pix[3]
        /\ UNCHANGED late_ack

\* Vppu::eval() under the pin contract of the specification, where
\* bus-driver-enable is an input of the core: eval() leaves it as it is.  The
\* core follows the handshake: it asserts bus-grant-acknowledge only once it
\* sees bus-grant asserted, and may then hold it.
eval_oe_input(Outs) ==
    \E o \in Outs :
        /\ o.bgack_n = 0 => (cpu_bg_n = 0 \/ ppu_bgack_n = 0)
        /\ ppu_br_n' = o.br_n
        /\ ppu_bgack_n' = o.bgack_n
        /\ cpu_bus_oe_n' = cpu_bus_oe_n
        /\ mem_read' = o.rd
        /\ mem_write' = o.wr
        /\ mem_addr' = o.addr
        /\ mem_wdata' = o.wdata
        /\ pixel_r' = o.pix[1]
        /\ pixel_g' = o.pix[2]
        /\ pixel_b' = o.pix[3]
        /\ UNCHANGED late_ack

\* Vppu::eval() of a core that asserts bus-grant-acknowledge only starting in a
\* tick that began with bus-grant asserted, and may hold it afterwards; the
\* core's other outputs stay free.  late_ack records that the core first
\* asserted the acknowledge at a falling-edge evaluation (line 77).
eval_ack(Outs) ==
    \E o \in Outs :
        /\ o.bgack_n = 0 =>
              (ppu_bgack_n = 0 \/ (IF pc = "rise" THEN cpu_bg_n ELSE bg_start) = 0)
        /\ ppu_br_n' = o.br_n
        /\ ppu_bgack_n' = o.bgack_n
        /\ cpu_bus_oe_n' = o.oe_n
        /\ mem_read' = o.rd
        /\ mem_write' = o.wr
        /\ mem_addr' = o.addr
        /\ mem_wdata' = o.wdata
        /\ pixel_r' = o.pix[1]
        /\ pixel_g' = o.pix[2]
        /\ pixel_b' = o.pix[3]
        /\ late_ack' = (late_ack \/ (pc = "fall" /\ ppu_bgack_n = 1 /\ o.bgack_n = 0))

\* ------------------------------------------------------------------ tick()
\* (mutant) the rising edge goes straight to the memory step
tick_rising_edge_skips_arbiter(ev) ==
    /\ pc = "rise"
    /\ clk' = 1
    /\ ev
    /\ pc' = "mem"
    /\ bg_start' = cpu_bg_n
    /\ UNCHANGED <<reset, cpu_bg_n, cpu_as_n, mem_rdata, fields, mainv, rst_left, obs,
                   tc_call>>

\* lines 67-69
tick_rising_edge(ev) ==
    /\ pc = "rise"
    /\ clk' = 1
    /\ ev
    /\ pc' = "arb"
    /\ bg_start' = cpu_bg_n
    /\ UNCHANGED <<reset, cpu_bg_n, cpu_as_n, mem_rdata, fields, mainv, rst_left, obs,
                   tc_call>>

\* lines 75-77
tick_falling_edge(ev) ==
    /\ pc = "fall"
    /\ clk' = 0
    /\ ev
    /\ pc' = "inc"
    /\ UNCHANGED <<reset, cpu_bg_n, cpu_as_n, mem_rdata, fields, mainv, rst_left, obs,
                   bg_start, tc_call>>

\* line 79, and the return to the caller: reset() (lines 60-61) or ret
tick_count_inc(ret) ==
    /\ pc = "inc"
    /\ tick_count' = tick_count + 1
    /\ pc' = IF rst_left = 2 THEN "rise" ELSE IF rst_left = 1 THEN "rst_end" ELSE ret
    /\ rst_left' = IF rst_left = 2 THEN 1 ELSE rst_left
    /\ returned' = IF rst_left = 0 THEN "tick" ELSE returned
    /\ UNCHANGED <<pins, outs, ram, cpu_grant_delay_counter, mainv,
                   oob, br_run, idle_run, calls, shadow, recent, wraps, obs2>>

\* a call of tick() by the user of the class
tick(maxT) ==
    /\ pc = "ready"
    /\ tick_count < maxT
    /\ pc' = "rise"
    /\ calls' = IF calls < 2 THEN calls + 1 ELSE calls
    /\ tc_call' = tick_count
    /\ UNCHANGED <<pins, outs, fields, mainv, rst_left,
                   oob, br_run, idle_run, returned, shadow, recent, wraps,
                   bg_start, late_ack>>

\* ------------------------------------------------------------------ reset()
\* (mutant) reset() starts the tick counter again
reset_call_clears(from, maxT) ==
    /\ pc = from
    /\ tick_count + 2 <= maxT
    /\ reset' = 1
    /\ rst_left' = 2
    /\ pc' = "rise"
    /\ tick_count' = 0
    /\ calls' = IF calls < 2 THEN calls + 1 ELSE calls
    /\ tc_call' = tick_count
    /\ UNCHANGED <<clk, cpu_bg_n, cpu_as_n, mem_rdata, cpu_bus_oe_n, outs, ram,
                   cpu_grant_delay_counter, mainv, oob, br_run, idle_run, returned,
                   shadow, recent, wraps, bg_start, late_ack>>

\* lines 59-60: reset pin up, first tick() called
reset_call(from, maxT) ==
    /\ pc = from
    /\ tick_count + 2 <= maxT
    /\ reset' = 1
    /\ rst_left' = 2
    /\ pc' = "rise"
    /\ calls' = IF calls < 2 THEN calls + 1 ELSE calls
    /\ tc_call' = tick_count
    /\ UNCHANGED <<clk, cpu_bg_n, cpu_as_n, mem_rdata, cpu_bus_oe_n, outs, fields,
                   mainv, oob, br_run, idle_run, returned, shadow, recent, wraps,
                   bg_start, late_ack>>

\* (mutant) reset() returns with the reset pin still asserted
reset_return_asserted(ret) ==
    /\ pc = "rst_end"
    /\ rst_left' = 0
    /\ pc' = ret
    /\ returned' = "reset"
    /\ UNCHANGED <<pins, outs, fields, mainv, oob, br_run, idle_run, calls, shadow,
                   recent, wraps, obs2>>

\* line 62, and the return to the caller
reset_return(ret) ==
    /\ pc = "rst_end"
    /\ reset' = 0
    /\ rst_left' = 0
    /\ pc' = ret
    /\ returned' = "reset"
    /\ UNCHANGED <<clk, cpu_bg_n, cpu_as_n, mem_rdata, cpu_bus_oe_n, outs, fields,
                   mainv, oob, br_run, idle_run, calls, shadow, recent, wraps, obs2>>

\* ------------------------------------------------------------------ main()
\* line 165
cycles_per_frame == WIDTH * HEIGHT * 5

\* line 176: 255 as an unsigned char
ALPHA == BYTE_MOD - 1

\* line 158: GenImageColor(WIDTH, HEIGHT, BLACK)
BlackImage == [k \in 0 .. (WIDTH * HEIGHT * 4 - 1) |-> IF k % 4 = 3 THEN ALPHA ELSE 0]

\* lines 167-168
main_tick ==
    /\ pc = "loop"
    /\ i < cycles_per_frame
    /\ pc' = "rise"
    /\ calls' = IF calls < 2 THEN calls + 1 ELSE calls
    /\ tc_call' = tick_count
    /\ UNCHANGED <<pins, outs, fields, mainv, rst_left,
                   oob, br_run, idle_run, returned, shadow, recent, wraps,
                   bg_start, late_ack>>

\* lines 172-177: the four stores of one sample at index p
StorePixel(px, p, r, g, b) ==
    [k \in DOMAIN px |->
        CASE k = p     -> r
          [] k = p + 1 -> g
          [] k = p + 2 -> b
          [] k = p + 3 -> ALPHA
          [] OTHER     -> px[k]]

\* (mutant) the index wraps one step late
WrapIdx_late(p) == IF p > WIDTH * HEIGHT * 4 THEN 0 ELSE p

\* line 178
WrapIdx(p) == IF p >= WIDTH * HEIGHT * 4 THEN 0 ELSE p

\* lines 170-178, and the loop's i++
capture ==
    /\ pc = "capture"
    /\ LET stored  == p_idx < WIDTH * HEIGHT * 4
           p_after == IF stored THEN p_idx + 4 ELSE p_idx
       IN  /\ pixels' = IF stored THEN StorePixel(pixels, p_idx, pixel_r, pixel_g, pixel_b)
                        ELSE pixels
           /\ p_idx' = WrapIdx(p_after)
           /\ wraps' = IF WrapIdx(p_after) # p_after THEN wraps + 1 ELSE wraps
    /\ recent' = (IF Len(recent) < WIDTH * HEIGHT THEN recent ELSE Tail(recent))
                 \o <<<<pixel_r, pixel_g, pixel_b>>>>
    /\ i' = i + 1
    /\ pc' = "loop"
    /\ UNCHANGED <<pins, outs, fields, frames, rst_left, oob, br_run, idle_run,
                   calls, returned, shadow, obs2>>

\* lines 181-195 and the next pass of the while loop (line 162)
present ==
    /\ pc = "loop"
    /\ i = cycles_per_frame
    /\ frames < MaxFrames
    /\ frames' = frames + 1
    /\ i' = 0
    /\ wraps' = 0
    /\ UNCHANGED <<pins, outs, fields, p_idx, pixels, ctl, oob, br_run, idle_run,
                   calls, returned, shadow, recent, obs2>>

\* ------------------------------------------------------------------ inputs
\* the addresses the core puts on mem_addr: the first word, the last word in
\* bounds, the first address out of bounds, and the top of the address range
MemAddrs == {0, RAM_SIZE - 4, RAM_SIZE - 3, ADDR_MOD - 1}

\* the in-bounds addresses among them
WordAddrs == {a \in MemAddrs : a + 3 < RAM_SIZE}

\* two words whose four bytes differ
MemData == {ShiftL(3, 0) + ShiftL(2, 1) + ShiftL(1, 2) + ShiftL(0, 3),
            ShiftL(0, 0) + ShiftL(1, 1) + ShiftL(2, 2) + ShiftL(3, 3)}

PixelSamples == {<<0, 0, 0>>, <<1, 2, 3>>}

\* the core as the arbiter sees it: no memory request
ArbOutputs ==
    [br_n : {0, 1}, bgack_n : {0, 1}, oe_n : {0, 1}, rd : {0}, wr : {0},
     addr : {0}, wdata : {0}, pix : {<<0, 0, 0>>}]

\* the core as the memory sees it
MemOutputs ==
    [br_n : {1}, bgack_n : {0, 1}, oe_n : {0, 1}, rd : {0, 1}, wr : {0, 1},
     addr : MemAddrs, wdata : MemData, pix : {<<0, 0, 0>>}]

\* the core running the handshake and reading
HandshakeOutputs ==
    [br_n : {0, 1}, bgack_n : {0, 1}, oe_n : {0}, rd : {0, 1}, wr : {0},
     addr : {0, RAM_SIZE - 3}, wdata : {0}, pix : {<<0, 0, 0>>}]

\* the core as the frame assembler sees it
PixOutputs ==
    [br_n : {1}, bgack_n : {1}, oe_n : {0}, rd : {0}, wr : {0},
     addr : {0}, wdata : {0}, pix : PixelSamples]

\* ------------------------------------------------------------------ construction
\* lines 20-38: the fields' initialisers and the constructor, whose eval() leaves
\* the core's outputs at any values; line 171: p_idx
Constructed(start) ==
    /\ ram = init_ram_pattern
    /\ tick_count = 0
    /\ cpu_grant_delay_counter = 0
    /\ clk = 0
    /\ reset = 1
    /\ cpu_bg_n = 1
    /\ cpu_as_n = 1
    /\ mem_rdata = 0
    /\ i = 0
    /\ p_idx = 0
    /\ pixels = BlackImage
    /\ frames = 0
    /\ pc = start
    /\ rst_left = 0
    /\ oob = FALSE
    /\ br_run = 0
    /\ idle_run = 0
    /\ calls = 0
    /\ returned = "none"
    /\ bg_start = 1
    /\ late_ack = FALSE
    /\ tc_call = 0
    /\ shadow = [a \in WordAddrs |-> NoWord]
    /\ recent = <<>>
    /\ wraps = 0

InitOuts(Outs) ==
    \E o \in Outs :
        /\ ppu_br_n = o.br_n
        /\ ppu_bgack_n = o.bgack_n
        /\ cpu_bus_oe_n = o.oe_n
        /\ mem_read = o.rd
        /\ mem_write = o.wr
        /\ mem_addr = o.addr
        /\ mem_wdata = o.wdata
        /\ pixel_r = o.pix[1]
        /\ pixel_g = o.pix[2]
        /\ pixel_b = o.pix[3]

\* ------------------------------------------------------------------ specifications
\* The class used through tick() and reset() in any order; the core drives the
\* arbitration pins freely.
Init == Constructed("ready") /\ InitOuts(ArbOutputs)

Next ==
    \/ tick(MaxTicks)
    \/ reset_call("ready", MaxTicks)
    \/ tick_rising_edge(eval(ArbOutputs))
    \/ simulate_cpu_arbitration
    \/ simulate_memory
    \/ tick_falling_edge(eval(ArbOutputs))
    \/ tick_count_inc("ready")
    \/ reset_return("ready")

Spec == Init /\ [][Next]_vars

\* The same, with the core issuing memory requests.
InitMem == Constructed("ready") /\ InitOuts(MemOutputs)

NextMem ==
    \/ tick(MemTicks)
    \/ reset_call("ready", MemTicks)
    \/ tick_rising_edge(eval(MemOutputs))
    \/ simulate_cpu_arbitration
    \/ simulate_memory
    \/ tick_falling_edge(eval(MemOutputs))
    \/ tick_count_inc("ready")
    \/ reset_return("ready")

SpecMem == InitMem /\ [][NextMem]_vars

\* Construction, reset(), then ticks, with bus-driver-enable an input of the core
\* that nothing drives.
InitPins ==
    /\ Constructed("main")
    /\ InitOuts({o \in HandshakeOutputs : o.bgack_n = 1})

NextPins ==
    \/ reset_call("main", MaxTicks)
    \/ tick(MaxTicks)
    \/ tick_rising_edge(eval_oe_input(HandshakeOutputs))
    \/ simulate_cpu_arbitration
    \/ simulate_memory
    \/ tick_falling_edge(eval_oe_input(HandshakeOutputs))
    \/ tick_count_inc("ready")
    \/ reset_return("ready")

SpecPins == InitPins /\ [][NextPins]_vars

\* tick() and reset() in any order, with a core that acknowledges only a grant
\* it has seen at the start of a tick.
InitAck ==
    /\ Constructed("ready")
    /\ InitOuts({o \in ArbOutputs : o.bgack_n = 1})

NextAck ==
    \/ tick(MaxTicks)
    \/ reset_call("ready", MaxTicks)
    \/ tick_rising_edge(eval_ack(ArbOutputs))
    \/ simulate_cpu_arbitration
    \/ simulate_memory
    \/ tick_falling_edge(eval_ack(ArbOutputs))
    \/ tick_count_inc("ready")
    \/ reset_return("ready")

SpecAck == InitAck /\ [][NextAck]_vars

\* main(): construction, reset(), then the frame loop.
InitMain == Constructed("main") /\ InitOuts(PixOutputs)

NextMain ==
    \/ reset_call("main", 2)
    \/ main_tick
    \/ tick_rising_edge(eval(PixOutputs))
    \/ simulate_cpu_arbitration
    \/ simulate_memory
    \/ tick_falling_edge(eval(PixOutputs))
    \/ tick_count_inc("capture")
    \/ reset_return("loop")
    \/ capture
    \/ present

SpecMain == InitMain /\ [][NextMain]_vars

\* ------------------------------------------------------------------ claims
\* the little-endian word at address a of image r, for a + 3 < RAM_SIZE
WordAt(r, a) ==
    r[a] + r[a + 1] * BYTE_MOD + r[a + 2] * BYTE_MOD * BYTE_MOD
         + r[a + 3] * BYTE_MOD * BYTE_MOD * BYTE_MOD

\* a tick() has just returned to its caller
TickReturned ==
    \/ pc = "ready" /\ returned = "tick"
    \/ pc = "rst_end"
    \/ pc = "rise" /\ rst_left = 1

\* C1. Mutual exclusion of memory service: a memory step taken with
\* bus-grant-acknowledge deasserted or bus-driver-enable not deasserted leaves
\* memory-read-data at 0 and every byte of the memory image unchanged, whatever
\* the request, address and data pins hold.
C1_MutualExclusion ==
    [][(pc = "mem" /\ (ppu_bgack_n # 0 \/ cpu_bus_oe_n # 1))
          => (mem_rdata' = 0 /\ ram' = ram)]_vars

\* C1 witness: a memory step has run with the gate closed on an in-bounds write
\* and read request; the image still holds other bytes than the write data.
C1_Witness ==
    /\ pc = "fall"
    /\ ppu_bgack_n = 0
    /\ cpu_bus_oe_n = 0
    /\ mem_write = 1
    /\ mem_read = 1
    /\ mem_addr + 3 < RAM_SIZE
    /\ WordAt(ram, mem_addr) # mem_wdata
    /\ WordAt(ram, mem_addr) # 0
    /\ mem_rdata = 0

\* C2. Bounded grant latency: once bus-request has been sampled asserted in five
\* consecutive ticks T .. T+4 (after a deasserted sample or construction),
\* bus-grant is asserted, and it stays asserted for as long as the request keeps
\* being sampled asserted, whatever bus-grant-acknowledge does.
C2_BoundedGrantLatency == br_run >= 5 => cpu_bg_n = 0

\* C2 witness: the arbiter step of tick T+4 has just granted, with no
\* acknowledge from the core.
C2_Witness ==
    /\ pc = "mem"
    /\ br_run = 5
    /\ cpu_bg_n = 0
    /\ ppu_bgack_n = 1

\* C7 as stated: after a tick() of an idle run that has lasted 16 ticks or more
\* returns, address-strobe is asserted exactly when the number of completed
\* ticks is a multiple of 4.
C7_PulseOnCompletedTicks ==
    (TickReturned /\ idle_run >= 16) => (cpu_as_n = 0 <=> tick_count % 4 = 0)

\* C7 amended: after a tick() in which bus-request and bus-grant-acknowledge were
\* sampled deasserted returns, address-strobe is asserted exactly when the
\* number of completed ticks is 1 modulo 4: the arbiter reads the tick counter
\* before the tick increments it.
C7_PulseOnTickIndex ==
    (TickReturned /\ idle_run >= 1) => (cpu_as_n = 0 <=> tick_count % 4 = 1)

\* C7 witness: the 16th tick or later of an idle run has returned with the
\* strobe asserted.
C7_Witness ==
    /\ TickReturned
    /\ idle_run >= 16
    /\ cpu_as_n = 0

\* reset() has just returned, and it was the first call on the harness
AfterFirstReset == pc = "ready" /\ returned = "reset" /\ calls = 1

\* C9 as stated: after reset() returns on a fresh harness the tick counter is 2,
\* the reset pin is deasserted, and bus-grant and bus-request are deasserted.
C9_ResetLeavesRequestDeasserted ==
    AfterFirstReset =>
        (tick_count = 2 /\ reset = 0 /\ cpu_bg_n = 1 /\ ppu_br_n = 1)

\* C9 amended: after reset() returns on a fresh harness the tick counter is 2,
\* the reset pin is deasserted, bus-grant is deasserted and the grant-delay
\* counter is at most 2; bus-request is whatever the core drives.
C9_ResetBehaviour ==
    AfterFirstReset =>
        (tick_count = 2 /\ reset = 0 /\ cpu_bg_n = 1 /\ cpu_grant_delay_counter <= 2)

\* C9 witness: reset() has returned on a fresh harness whose core requested the
\* bus in both ticks and still does.
C9_Witness ==
    /\ AfterFirstReset
    /\ cpu_grant_delay_counter = 2
    /\ ppu_br_n = 0

\* C3 as stated: after reset(), when the core has held bus-request until
\* bus-grant is asserted and then asserts bus-grant-acknowledge with a read
\* request for an in-bounds address, the memory step of that tick finds the
\* coprocessor the effective bus driver and returns the word at that address.
C3_HandshakeEndsInOwnership ==
    (/\ pc = "fall"
     /\ reset = 0
     /\ ppu_br_n = 0
     /\ cpu_bg_n = 0
     /\ ppu_bgack_n = 0
     /\ mem_read = 1
     /\ mem_addr + 3 < RAM_SIZE)
    => (cpu_bus_oe_n = 1 /\ mem_rdata = WordAt(ram, mem_addr))

\* C4. Write/read round trip: under mastership, a read at an address whose last
\* serviced write stored V, with no serviced write to any of its four bytes
\* since, returns V; and a serviced write of V at an in-bounds address A of any
\* alignment leaves V's bytes at A .. A+3, least significant first.
C4_WriteReadRoundTrip ==
    [][(pc = "mem" /\ ppu_bgack_n = 0 /\ cpu_bus_oe_n = 1) =>
          /\ (mem_read = 1 /\ mem_addr \in DOMAIN shadow /\ shadow[mem_addr] # NoWord)
                => mem_rdata' = shadow[mem_addr]
          /\ (mem_write = 1 /\ mem_addr + 3 < RAM_SIZE)
                => \A k \in 0 .. 3 :
                       ram'[mem_addr + k] = (mem_wdata \div (BYTE_MOD ^ k)) % BYTE_MOD
      ]_vars

\* C4 witness: a read in a tick without a write has returned, at an unaligned
\* address, the word an earlier tick wrote there, which is not the word the
\* constructor left.
C4_Witness ==
    /\ pc = "fall"
    /\ ppu_bgack_n = 0
    /\ cpu_bus_oe_n = 1
    /\ mem_read = 1
    /\ mem_write = 0
    /\ mem_addr \in DOMAIN shadow
    /\ mem_addr % 4 # 0
    /\ shadow[mem_addr] # NoWord
    /\ mem_rdata = shadow[mem_addr]
    /\ mem_rdata # WordAt(init_ram_pattern, mem_addr)

\* C5 as stated: under mastership a write request at an address A with
\* A + 3 >= RAM_SIZE leaves the memory image unchanged, and no read or write
\* ever uses a byte index outside [0, RAM_SIZE).
C5_BoundsSafety ==
    [][/\ (pc = "mem" /\ ppu_bgack_n = 0 /\ cpu_bus_oe_n = 1 /\ mem_write = 1
              /\ mem_addr + 3 >= RAM_SIZE) => ram' = ram
       /\ ~oob'
      ]_vars

\* C6 as stated, for the addresses whose A + 3 does not wrap: under mastership
\* a read request at an address A with A + 3 >= RAM_SIZE leaves memory-read-data
\* at 0 after the memory step.
C6_OutOfBoundsReadIsZero ==
    (/\ pc = "fall"
     /\ ppu_bgack_n = 0
     /\ cpu_bus_oe_n = 1
     /\ mem_read = 1
     /\ mem_addr + 3 >= RAM_SIZE
     /\ mem_addr + 3 < ADDR_MOD)
    => mem_rdata = 0

\* C8 as stated: under mastership, with write-request and read-request both
\* asserted for the same in-bounds address, memory-read-data after the memory
\* step is the write data of that tick.
C8_SameTickWriteThenRead ==
    (/\ pc = "fall"
     /\ ppu_bgack_n = 0
     /\ cpu_bus_oe_n = 1
     /\ mem_write = 1
     /\ mem_read = 1
     /\ mem_addr + 3 < RAM_SIZE)
    => mem_rdata = mem_wdata

\* C10. Frame wraparound: every store of the frame loop is at an offset in
\* [0, 4*W*H); when a frame's 5*W*H ticks are done the index has wrapped 5 times
\* in that frame and is 0, and pixel slot k holds (red, green, blue, 255) of the
\* sample taken after tick 4*W*H + k of the frame, for every frame.
C10_FrameWraparound ==
    /\ pc = "capture" => (p_idx >= 0 /\ p_idx + 3 < 4 * WIDTH * HEIGHT)
    /\ (pc = "loop" /\ i = 5 * WIDTH * HEIGHT) =>
          /\ p_idx = 0
          /\ wraps = 5
          /\ Len(recent) = WIDTH * HEIGHT
          /\ \A k \in 0 .. (WIDTH * HEIGHT - 1) :
                /\ pixels[4 * k] = recent[k + 1][1]
                /\ pixels[4 * k + 1] = recent[k + 1][2]
                /\ pixels[4 * k + 2] = recent[k + 1][3]
                /\ pixels[4 * k + 3] = BYTE_MOD - 1

\* C10 witness: the second frame's ticks are done and its last W*H samples are
\* not all the same.
C10_Witness ==
    /\ pc = "loop"
    /\ i = 5 * WIDTH * HEIGHT
    /\ frames = 1
    /\ wraps = 5
    /\ \E k \in 1 .. Len(recent) : recent[k] # recent[1]

\* C11. Tick counter monotonicity: the tick counter is 0 until the first call,
\* changes only by the increment that ends a tick, by exactly 1, is one more
\* when a tick() returns and two more when a reset() returns than when the
\* call began, and never decreases.
C11_TickCounterMonotonic ==
    [][/\ calls = 0 => tick_count = 0
       /\ tick_count' >= tick_count
       /\ tick_count' # tick_count => (pc = "inc" /\ tick_count' = tick_count + 1)
       /\ (pc # "ready" /\ pc' = "ready") =>
             tick_count' = tc_call' + (IF returned' = "reset" THEN 2 ELSE 1)
      ]_vars

\* C11 witness: a reset() called on a harness that had already ticked has
\* returned with the counter two above its value at the call.
C11_Witness ==
    /\ pc = "ready"
    /\ returned = "reset"
    /\ tc_call > 0
    /\ tick_count = tc_call + 2

\* C12. No early grant: bus-grant is asserted only when bus-request has been
\* sampled asserted in the current tick and in each of the 4 ticks before it;
\* one deasserted sample starts the count again.
C12_NoEarlyGrant == cpu_bg_n = 0 => br_run >= 5

\* C12 witness: a grant given at the fifth asserted sample that followed an
\* earlier deasserted sample.
C12_Witness ==
    /\ pc = "mem"
    /\ cpu_bg_n = 0
    /\ br_run = 5
    /\ tick_count > 5

\* C14. Immediate grant withdrawal: after the arbiter step of a tick that
\* sampled bus-request deasserted, bus-grant is deasserted and the grant-delay
\* counter is 0, whatever they were before and whatever bus-grant-acknowledge is.
C14_ImmediateWithdrawal ==
    [][(pc = "arb" /\ ppu_br_n = 1) =>
          (cpu_bg_n' = 1 /\ cpu_grant_delay_counter' = 0)]_vars

\* C14 witness: the arbiter step has withdrawn a grant the tick began with,
\* while the core holds bus-grant-acknowledge asserted.
C14_Witness ==
    /\ pc = "mem"
    /\ ppu_br_n = 1
    /\ bg_start = 0
    /\ cpu_bg_n = 1
    /\ cpu_grant_delay_counter = 0
    /\ ppu_bgack_n = 0

\* C15. Grant implies released strobe: whenever bus-grant is asserted,
\* address-strobe is deasserted and the grant-delay counter is 4.
C15_GrantImpliesReleasedStrobe ==
    cpu_bg_n = 0 => (cpu_as_n = 1 /\ cpu_grant_delay_counter = 4)

\* C15 witness: a grant stands after the falling edge of a tick.
C15_Witness ==
    /\ pc = "inc"
    /\ cpu_bg_n = 0
    /\ cpu_as_n = 1
    /\ cpu_grant_delay_counter = 4

\* C16. Pins frozen during the grant wait: an arbiter step that samples
\* bus-request asserted with the counter below 4 adds 1 to the counter and
\* leaves bus-grant, address-strobe and everything else the harness owns as
\* they were, so a strobe left asserted by the last pulse stays asserted.
C16_PinsFrozenDuringWait ==
    [][(pc = "arb" /\ ppu_br_n = 0 /\ cpu_grant_delay_counter < 4) =>
          /\ cpu_grant_delay_counter' = cpu_grant_delay_counter + 1
          /\ cpu_bg_n' = cpu_bg_n
          /\ cpu_as_n' = cpu_as_n
          /\ UNCHANGED <<clk, reset, mem_rdata, ram, tick_count>>
      ]_vars

\* C16 witness: the last step of a wait, with the strobe still asserted from
\* the pulse before the request.
C16_Witness ==
    /\ pc = "mem"
    /\ ppu_br_n = 0
    /\ br_run = 4
    /\ cpu_grant_delay_counter = 4
    /\ cpu_bg_n = 1
    /\ cpu_as_n = 0

\* C19. Counter range: the grant-delay counter is an integer in 0 .. 4 in every
\* reachable state, under any interleaving of tick() and reset().
C19_CounterRange == cpu_grant_delay_counter \in 0 .. 4

\* C19 witness: the counter stands at 4 when a reset() called after earlier
\* ticks returns.
C19_Witness ==
    /\ pc = "ready"
    /\ returned = "reset"
    /\ tc_call > 0
    /\ cpu_grant_delay_counter = 4

\* C13 as stated: with a core that asserts bus-grant-acknowledge only starting
\* in a tick that begins with bus-grant asserted, after every tick address-strobe
\* is not asserted while bus-grant-acknowledge is asserted.
C13_AtMostOneBusDriver ==
    TickReturned => ~(cpu_as_n = 0 /\ ppu_bgack_n = 0)

\* C13. At most one bus driver: with such a core that moreover first asserts
\* bus-grant-acknowledge at a rising-edge evaluation, never at the falling-edge
\* evaluation that follows the arbiter step, after every tick address-strobe is
\* not asserted while bus-grant-acknowledge is asserted.
C13_AtMostOneBusDriverRisingAck ==
    (TickReturned /\ ~late_ack) => ~(cpu_as_n = 0 /\ ppu_bgack_n = 0)

\* C13 witness: a tick on which the host would pulse the strobe has returned
\* with the grant withdrawn, the acknowledge asserted since the rising edge
\* and the strobe deasserted.
C13_Witness ==
    /\ pc = "ready"
    /\ returned = "tick"
    /\ ~late_ack
    /\ tick_count % 4 = 1
    /\ bg_start = 0
    /\ cpu_bg_n = 1
    /\ ppu_bgack_n = 0
    /\ cpu_as_n = 1

\* C17 as stated: the memory image changes only in a memory step taken under
\* mastership with write-request asserted and A + 3 < RAM_SIZE; in such a step
\* exactly the bytes A .. A+3 take the bytes of the write data and every other
\* byte keeps its value.
C17_WriteFootprint ==
    [][/\ ram' # ram =>
            (/\ pc = "mem"
             /\ ppu_bgack_n = 0
             /\ cpu_bus_oe_n = 1
             /\ mem_write = 1
             /\ mem_addr + 3 < RAM_SIZE)
       /\ (/\ pc = "mem"
           /\ ppu_bgack_n = 0
           /\ cpu_bus_oe_n = 1
           /\ mem_write = 1
           /\ mem_addr + 3 < RAM_SIZE) =>
            \A a \in DOMAIN ram :
                ram'[a] = IF a >= mem_addr /\ a <= mem_addr + 3
                          THEN ByteOf(mem_wdata, a - mem_addr)
                          ELSE ram[a]
      ]_vars

====
